---------------------------- MODULE Spec2Model ----------------------------
(***************************************************************************)
(* A model of src/src/http_server.js: the dictionary server HTTPServer.    *)
(*                                                                         *)
(* Text is modelled as a sequence of one-character strings, so that the    *)
(* tokenisation of a data event, the joining of the description and the    *)
(* formatting of every response line are computed, character by character, *)
(* as the code computes them.  The dictionary (a JavaScript Map) is a      *)
(* sequence of [key, value] entries in insertion order.  Every handler of  *)
(* the class is one action: JavaScript runs a callback to completion       *)
(* before the event loop delivers the next event.                          *)
(***************************************************************************)
EXTENDS Integers, Sequences, FiniteSets, TLC

(***************************************************************************)
(* Bounds of the model.                                                    *)
(***************************************************************************)
\* The longest run of blanks the enumerated requests put between two tokens.
MaxGap == 2
\* The largest number of tokens in an enumerated description.
MaxDescToks == 2

(***************************************************************************)
(* The literals of the protocol, as sequences of characters.               *)
(***************************************************************************)
GreetingLine == <<"S","u","c","c","e","s","s","f","u","l"," ","c","o","n","n","e","c","t","i","o","n",".","\r","\n">>
CommandsLine == <<"A","v","a","i","l","a","b","l","e"," ","c","o","m","m","a","n","d","s",":"," ","G","E","T",","," ","S","E","T",","," ","C","L","E","A","R",","," ","A","L","L",".","\r","\n">>
FarewellLine == <<"F","i","n","i","s","h","e","d","."," ","B","y","e","!","\r","\n">>
ErrExpectedCommand == <<"E","R","R","O","R"," ","A"," ","c","o","m","m","a","n","d"," ","w","a","s"," ","e","x","p","e","c","t","e","d",".","\r","\n">>
ErrGetFormat == <<"E","R","R","O","R"," ","E","x","p","e","c","t","e","d"," ","f","o","r","m","a","t"," ","i","s",":"," ","G","E","T"," ","<","w","o","r","d",">",".","\r","\n">>
ErrNotFound == <<"E","R","R","O","R"," ","C","o","u","l","d"," ","n","o","t"," ","f","i","n","d"," ","t","h","e"," ","s","p","e","c","i","f","i","e","d"," ","w","o","r","d",".","\r","\n">>
ErrSetFormat == <<"E","R","R","O","R"," ","E","x","p","e","c","t","e","d"," ","f","o","r","m","a","t"," ","i","s",":"," ","S","E","T"," ","<","w","o","r","d",">"," ","<","d","e","s","c",">","\r","\n">>
AnsCleared == <<"A","N","S","W","E","R"," ","T","h","e"," ","d","i","c","t","i","o","n","a","r","y"," ","h","a","s"," ","b","e","e","n"," ","c","l","e","a","r","e","d",".","\r","\n">>
ErrNoWords == <<"E","R","R","O","R"," ","T","h","e","r","e"," ","a","r","e"," ","n","o"," ","w","o","r","d","s"," ","s","a","v","e","d",".","\r","\n">>
ErrCommandNotFound == <<"E","R","R","O","R"," ","C","o","m","m","a","n","d"," ","n","o","t"," ","f","o","u","n","d",".","\r","\n">>
SeparatorLine == <<"-","-","-","-","-","-","-","-","-","-","-","-","-","-","-","\r","\n">>
AnswerPrefix == <<"A","N","S","W","E","R"," ">>
ErrorPrefix == <<"E","R","R","O","R"," ">>
CRLF == <<"\r","\n">>

\* `ANSWER ${rVal}\r\n`
AnswerLine(rVal) == AnswerPrefix \o rVal \o CRLF
\* `ANSWER Word ${word} has been set.\r\n`
WordSetLine(word) ==
  AnswerPrefix \o <<"W","o","r","d"," ">> \o word
    \o <<" ","h","a","s"," ","b","e","e","n"," ","s","e","t",".">> \o CRLF
\* `ANSWER Available words: ${words}.\r\n`
AvailableLine(words) ==
  AnswerPrefix \o <<"A","v","a","i","l","a","b","l","e"," ","w","o","r","d","s",":"," ">>
    \o words \o <<".">> \o CRLF

\* The verbs the switch of #dataHandler compares the first token with.
GET == <<"G","E","T">>
SET == <<"S","E","T">>
CLEAR == <<"C","L","E","A","R">>
ALL == <<"A","L","L">>

(***************************************************************************)
(* String and array primitives of JavaScript, as the code uses them.       *)
(***************************************************************************)
\* The class \s of the regular expression, restricted to the blanks that
\* occur in the enumerated inputs.
IsSpace(ch) == ch \in {" ", "\t", "\r", "\n"}

RECURSIVE Scan(_, _, _)
\* One pass over the text s: cur is the token being read, acc the tokens read.
Scan(s, cur, acc) ==
  IF s = <<>>
    THEN (IF cur = <<>> THEN acc ELSE Append(acc, cur))
    ELSE IF IsSpace(Head(s))
      THEN Scan(Tail(s), <<>>, IF cur = <<>> THEN acc ELSE Append(acc, cur))
      ELSE Scan(Tail(s), Append(cur, Head(s)), acc)

\* data.toString('utf-8').match(/[^\s]+/g): the maximal runs of non-blank
\* characters, in order.  JavaScript returns null when there is none; the
\* empty sequence stands for null (match never returns an empty array).
match(data) == Scan(data, <<>>, <<>>)

\* A slice that takes from as a 1-based index.
sliceOneBased(arr, from) == SubSeq(arr, from, Len(arr))

\* Array.prototype.slice(from), with JavaScript's 0-based index.
slice(arr, from) == SubSeq(arr, from + 1, Len(arr))

RECURSIVE joinComma(_, _)
\* A join that ignores its separator and uses the default one, the comma.
joinComma(arr, sep) ==
  IF arr = <<>> THEN <<>>
  ELSE IF Len(arr) = 1 THEN arr[1]
  ELSE arr[1] \o <<",">> \o joinComma(Tail(arr), sep)

RECURSIVE join(_, _)
\* Array.prototype.join(sep).
join(arr, sep) ==
  IF arr = <<>> THEN <<>>
  ELSE IF Len(arr) = 1 THEN arr[1]
  ELSE arr[1] \o sep \o join(Tail(arr), sep)

(***************************************************************************)
(* The Map #responses.                                                     *)
(***************************************************************************)
\* The value JavaScript calls undefined.
Undefined == << "undefined" >>

MapHas(m, k) == \E i \in 1..Len(m) : m[i].key = k
MapIndex(m, k) == CHOOSE i \in 1..Len(m) : m[i].key = k
\* Map.prototype.get
MapGet(m, k) == IF MapHas(m, k) THEN m[MapIndex(m, k)].value ELSE Undefined
\* A set that leaves the Map with the new entry alone.
MapSetAlone(m, k, v) == << [key |-> k, value |-> v] >>

\* Map.prototype.set: an existing key keeps its place, a new key goes last.
MapSet(m, k, v) ==
  IF MapHas(m, k)
    THEN [m EXCEPT ![MapIndex(m, k)] = [key |-> k, value |-> v]]
    ELSE Append(m, [key |-> k, value |-> v])
\* Array.from(map.keys())
MapKeys(m) == [i \in 1..Len(m) |-> m[i].key]

\* #cmdGet
cmdGet(m, word) == MapGet(m, word)
\* A set that pushes a new entry without looking for the key.
cmdSetAppend(m, word, desc) == Append(m, [key |-> word, value |-> desc])

\* #cmdSet
cmdSet(m, word, desc) == MapSet(m, word, desc)
\* A clear that removes the oldest entry only.
cmdClearOldest(m) == IF m = <<>> THEN <<>> ELSE Tail(m)

\* #cmdClear
cmdClear(m) == <<>>
\* #cmdAll
cmdAll(m) == join(MapKeys(m), <<",", " ">>)

(***************************************************************************)
(* The body of #dataHandler, as the list of its steps in program order.    *)
(* A step either replaces the Map (a call of #cmdSet or #cmdClear) or is a *)
(* call of socket.internal.write with one line.                            *)
(***************************************************************************)
StoreStep(m) == [op |-> "store", store |-> m, line |-> <<>>, event |-> ""]
WriteStep(l) == [op |-> "write", store |-> <<>>, line |-> l, event |-> ""]
\* socket.internal.destroy()
DestroyStep == [op |-> "destroy", store |-> <<>>, line |-> <<>>, event |-> ""]
\* socket.internal.on(event, listener)
OnStep(e) == [op |-> "on", store |-> <<>>, line |-> <<>>, event |-> e]

\* if (rVal), if (words): a string is truthy unless empty; undefined is falsy.
Truthy(v) == v # Undefined /\ v # <<>>

\* A GET that looks its word up without checking that there is one.
caseGETLookupOnly(m, stringMatch) ==
  IF Len(stringMatch) < 2
    THEN << WriteStep(ErrNotFound) >>
    ELSE LET rVal == cmdGet(m, stringMatch[2])
         IN IF Truthy(rVal)
              THEN << WriteStep(AnswerLine(rVal)) >>
              ELSE << WriteStep(ErrNotFound) >>

\* case 'GET' (lines 150-164)
caseGET(m, stringMatch) ==
  IF Len(stringMatch) < 2
    THEN << WriteStep(ErrGetFormat) >>
    ELSE LET rVal == cmdGet(m, stringMatch[2])
         IN IF Truthy(rVal)
              THEN << WriteStep(AnswerLine(rVal)) >>
              ELSE << WriteStep(ErrNotFound) >>

\* A SET that answers before it stores.
caseSETWriteFirst(m, stringMatch) ==
  LET extraParam == join(slice(stringMatch, 2), <<" ">>)
  IN IF Len(stringMatch) < 2 \/ ~Truthy(extraParam)
       THEN << WriteStep(ErrSetFormat) >>
       ELSE << WriteStep(WordSetLine(stringMatch[2])),
               StoreStep(cmdSet(m, stringMatch[2], extraParam)) >>

\* A SET that refuses only when both the word and the description are missing.
caseSETBothMissing(m, stringMatch) ==
  LET extraParam == join(slice(stringMatch, 2), <<" ">>)
  IN IF Len(stringMatch) < 2 /\ ~Truthy(extraParam)
       THEN << WriteStep(ErrSetFormat) >>
       ELSE << StoreStep(cmdSet(m, stringMatch[2], extraParam)),
               WriteStep(WordSetLine(stringMatch[2])) >>

\* case 'SET' (lines 166-177)
caseSET(m, stringMatch) ==
  LET extraParam == join(slice(stringMatch, 2), <<" ">>)
  IN IF Len(stringMatch) < 2 \/ ~Truthy(extraParam)
       THEN << WriteStep(ErrSetFormat) >>
       ELSE << StoreStep(cmdSet(m, stringMatch[2], extraParam)),
               WriteStep(WordSetLine(stringMatch[2])) >>

\* case 'CLEAR' (lines 179-183)
caseCLEAR(m) == << StoreStep(cmdClear(m)), WriteStep(AnsCleared) >>

\* An ALL that empties the Map it has listed.
caseALLDraining(m) ==
  LET words == cmdAll(m)
  IN IF Truthy(words)
       THEN << WriteStep(AvailableLine(words)), StoreStep(<<>>) >>
       ELSE << WriteStep(ErrNoWords) >>

\* case 'ALL' (lines 185-194)
caseALL(m) ==
  LET words == cmdAll(m)
  IN IF Truthy(words)
       THEN << WriteStep(AvailableLine(words)) >>
       ELSE << WriteStep(ErrNoWords) >>

\* A switch whose GET case lacks its break and runs on into the SET case.
dispatchFallThrough(m, stringMatch) ==
  CASE stringMatch[1] = GET -> caseGET(m, stringMatch) \o caseSET(m, stringMatch)
    [] stringMatch[1] = SET -> caseSET(m, stringMatch)
    [] stringMatch[1] = CLEAR -> caseCLEAR(m)
    [] stringMatch[1] = ALL -> caseALL(m)
    [] OTHER -> << WriteStep(ErrCommandNotFound) >>

\* A switch whose default branch also closes the connection.
dispatchClosing(m, stringMatch) ==
  CASE stringMatch[1] = GET -> caseGET(m, stringMatch)
    [] stringMatch[1] = SET -> caseSET(m, stringMatch)
    [] stringMatch[1] = CLEAR -> caseCLEAR(m)
    [] stringMatch[1] = ALL -> caseALL(m)
    [] OTHER -> << WriteStep(ErrCommandNotFound), DestroyStep >>

\* A switch that takes the verbs in either case.
dispatchAnyCase(m, stringMatch) ==
  CASE stringMatch[1] \in {GET, <<"g","e","t">>} -> caseGET(m, stringMatch)
    [] stringMatch[1] \in {SET, <<"s","e","t">>} -> caseSET(m, stringMatch)
    [] stringMatch[1] = CLEAR -> caseCLEAR(m)
    [] stringMatch[1] = ALL -> caseALL(m)
    [] OTHER -> << WriteStep(ErrCommandNotFound) >>

\* switch (stringMatch[0]) (lines 149-198): strict equality with the four
\* verbs, and the default branch.
dispatch(m, stringMatch) ==
  CASE stringMatch[1] = GET -> caseGET(m, stringMatch)
    [] stringMatch[1] = SET -> caseSET(m, stringMatch)
    [] stringMatch[1] = CLEAR -> caseCLEAR(m)
    [] stringMatch[1] = ALL -> caseALL(m)
    [] OTHER -> << WriteStep(ErrCommandNotFound) >>

\* A #dataHandler that returns after the error for an unknown command, the
\* way it does after the error for a missing command.
dataStepsUnknownReturns(m, data) ==
  LET stringMatch == match(data)
  IN IF stringMatch = <<>>
       THEN << WriteStep(ErrExpectedCommand) >>
       ELSE IF stringMatch[1] \in {GET, SET, CLEAR, ALL}
         THEN dispatch(m, stringMatch) \o << WriteStep(SeparatorLine) >>
         ELSE dispatch(m, stringMatch)

\* A #dataHandler that hangs up on a chunk without a token.
dataStepsBlankCloses(m, data) ==
  LET stringMatch == match(data)
  IN IF stringMatch = <<>>
       THEN << WriteStep(ErrExpectedCommand), DestroyStep >>
       ELSE dispatch(m, stringMatch) \o << WriteStep(SeparatorLine) >>

\* The steps #dataHandler takes on the chunk data with the Map m (lines
\* 142-200).  The no-token branch returns after its write; every branch of
\* the switch goes on to the write of the separator.
dataSteps(m, data) ==
  LET stringMatch == match(data)
  IN IF stringMatch = <<>>
       THEN << WriteStep(ErrExpectedCommand) >>
       ELSE dispatch(m, stringMatch) \o << WriteStep(SeparatorLine) >>

\* A #tcpHandler that registers its listeners before it greets.
tcpStepsListenFirst ==
  << OnStep("end"), OnStep("data"), WriteStep(GreetingLine), WriteStep(CommandsLine) >>

\* The steps of #tcpHandler inside its try block (lines 221-225).
tcpSteps ==
  << WriteStep(GreetingLine), WriteStep(CommandsLine), OnStep("end"), OnStep("data") >>

\* An #endHandler that destroys the socket before it says goodbye.
endStepsDestroyFirst == << DestroyStep, WriteStep(FarewellLine) >>

\* The steps of #endHandler inside its try block (lines 78-79).
endSteps == << WriteStep(FarewellLine), DestroyStep >>

\* What a handler has done so far: the Map, the lines written, whether
\* destroy was called and whether it destroyed the socket, the listeners set,
\* whether a step threw.
Fresh(m, listeners) ==
  [store |-> m, wrote |-> <<>>, asked |-> FALSE, destroyed |-> FALSE,
   listeners |-> listeners, threw |-> FALSE]

RECURSIVE Run(_, _, _, _)
\* The steps run inside try { } catch: a write on a failed transport throws,
\* destroy throws when destroyThrows, and the steps after a throw are
\* skipped; what ran before it stays done.
Run(steps, st, broken, destroyThrows) ==
  IF steps = <<>> THEN st
  ELSE LET s == Head(steps)
           rest == Tail(steps)
       IN CASE s.op = "store" ->
                 Run(rest, [st EXCEPT !.store = s.store], broken, destroyThrows)
            [] s.op = "on" ->
                 Run(rest, [st EXCEPT !.listeners = @ \cup {s.event}], broken, destroyThrows)
            [] s.op = "write" ->
                 IF broken THEN [st EXCEPT !.threw = TRUE]
                 ELSE Run(rest, [st EXCEPT !.wrote = Append(@, s.line)], broken, destroyThrows)
            [] s.op = "destroy" ->
                 IF destroyThrows THEN [st EXCEPT !.asked = TRUE, !.threw = TRUE]
                 ELSE Run(rest, [st EXCEPT !.asked = TRUE, !.destroyed = TRUE], broken,
                          destroyThrows)

(***************************************************************************)
(* The requests the model sends.                                           *)
(***************************************************************************)
Conns == {"c1", "c2"}

W1 == <<"a">>
W2 == <<"b","c">>
Words == {W1, W2}
X == <<"x">>
Y == <<"y","z">>
DescTok(i) == IF i % 2 = 1 THEN X ELSE Y
\* Descriptions as lists of tokens: x; x yz; ...
DescLists == { [i \in 1..n |-> DescTok(i)] : n \in 1..MaxDescToks }
Spaces(n) == [i \in 1..n |-> " "]
RECURSIVE Glue(_, _)
\* The tokens toks laid out with the blanks gap between them.
Glue(toks, gap) ==
  IF Len(toks) = 1 THEN toks[1] ELSE toks[1] \o gap \o Glue(Tail(toks), gap)
\* Descriptions as a client may type them: the tokens with runs of spaces
\* between them.
RawDescs == { Glue(L, Spaces(g)) : L \in DescLists, g \in 1..MaxGap }
\* The request line `SET w d`.
SetLine(w, d) == SET \o <<" ">> \o w \o <<" ">> \o d \o CRLF
\* The request line `GET w`.
GetLine(w) == GET \o <<" ">> \o w \o CRLF

Lower == <<"g","e","t">>
PING == <<"P","I","N","G">>
\* Requests as lists of tokens: those sent in both layouts ...
LooseRequests ==
  { <<GET, w>> : w \in Words }
    \cup { <<SET, w>> \o L : w \in Words, L \in DescLists }
    \cup { <<CLEAR>>, <<ALL>>, <<PING>> }
\* ... and all of them.
Requests ==
  LooseRequests
    \cup { <<GET>>, <<SET>>, <<Lower>>, <<Lower, W1>>, <<GET, W1, X>>,
           <<<<"s","e","t">>, W1, X>> }
    \cup { <<SET, w>> : w \in Words }
\* How a request is laid out on the wire.
Tight == [lead |-> <<>>, gap |-> <<" ">>, trail |-> CRLF]
Loose == [lead |-> <<"\t">>, gap |-> Spaces(MaxGap), trail |-> <<" ", "\n">>]
Framed(r, s) == s.lead \o Glue(r, s.gap) \o s.trail
Blank == { CRLF, <<" ", "\t">> }
\* Two request lines that arrive in one chunk.
Pipelined == SetLine(W1, X) \o GetLine(W1)

\* The chunks of the full command language.
RichInputs ==
  { Framed(r, Tight) : r \in Requests }
    \cup { Framed(r, Loose) : r \in LooseRequests }
    \cup { SetLine(w, d) : w \in Words, d \in RawDescs }
    \cup Blank \cup { Pipelined }
\* One chunk per kind of request, for the runs that exercise the lifecycle.
BasicInputs ==
  { SetLine(W1, X), SetLine(W1, Glue(<<X, Y>>, <<" ">>)), SetLine(W2, Y), GetLine(W1),
    GET \o CRLF, SET \o <<" ">> \o W1 \o CRLF, CLEAR \o CRLF, ALL \o CRLF,
    PING \o CRLF, CRLF, <<" ", "\t">> }

(***************************************************************************)
(* The state.                                                              *)
(***************************************************************************)
VARIABLES
  responses,  \* #responses: the Map, as entries in insertion order
  server,     \* #server: "unset", "listening", "closing" or "closed"
  sock,       \* per connection: the socket and the listeners set on it
  last        \* the latest handler run: its socket, its chunk, what it wrote,
              \* whether a step of it threw, whether it called destroy

vars == <<responses, server, sock, last>>

NoSocket == [state |-> "none", listeners |-> {}, broken |-> FALSE, ended |-> FALSE]

Init ==
  /\ responses = <<>>
  /\ server = "unset"
  /\ sock = [c \in Conns |-> NoSocket]
  /\ last = [h |-> "none", c |-> "none", data |-> <<>>, wrote |-> <<>>, threw |-> FALSE,
             teardown |-> FALSE]

(***************************************************************************)
(* The operations.                                                         *)
(***************************************************************************)
\* A session the protocol calls Active: accepted, greeted, both listeners
\* set, the peer has not half-closed and the transport has not failed.
Active(c) ==
  /\ sock[c].state = "open"
  /\ sock[c].listeners = {"end", "data"}
  /\ ~sock[c].ended
  /\ ~sock[c].broken

\* init() with the default listener: createServer and listen.
init ==
  /\ server = "unset"
  /\ server' = "listening"
  /\ UNCHANGED <<responses, sock, last>>

\* A close that disconnects every socket, as the comment above the method
\* has it and the call it makes does not.
closeSevering ==
  /\ server = "listening"
  /\ server' = "closing"
  /\ sock' = [c \in Conns |->
                IF sock[c].state = "open" THEN [sock[c] EXCEPT !.state = "destroyed"]
                ELSE sock[c]]
  /\ UNCHANGED <<responses, last>>

\* close(): the server stops listening; the sockets are left alone.
close ==
  /\ server = "listening"
  /\ server' = "closing"
  /\ UNCHANGED <<responses, sock, last>>

\* The callback of #server.close: it runs once every connection has ended.
closeCallback ==
  /\ server = "closing"
  /\ \A c \in Conns : sock[c].state # "open"
  /\ server' = "closed"
  /\ UNCHANGED <<responses, sock, last>>

\* A handler whose socket is destroyed when one of its steps threw.
sockAfterThrowCloses(s, r) ==
  [s EXCEPT !.state = IF r.destroyed \/ r.threw THEN "destroyed" ELSE @,
            !.listeners = r.listeners]

\* The socket after a handler that ended in the state r.
sockAfter(s, r) ==
  [s EXCEPT !.state = IF r.destroyed THEN "destroyed" ELSE @,
            !.listeners = r.listeners]

\* #tcpHandler: the listener of a new connection c.  up says whether the
\* transport takes the greeting; if not, the first write throws and the two
\* listeners are never set.
tcpHandler(c, up) ==
  /\ server = "listening"
  /\ sock[c].state = "none"
  /\ LET r == Run(tcpSteps, Fresh(responses, {}), ~up, FALSE)
     IN /\ sock' = [sock EXCEPT ![c] =
                      sockAfter([state |-> "open", listeners |-> {}, broken |-> ~up,
                                 ended |-> FALSE], r)]
        /\ last' = [h |-> "tcp", c |-> c, data |-> <<>>, wrote |-> r.wrote, threw |-> r.threw,
                    teardown |-> r.asked]
  /\ UNCHANGED <<responses, server>>

\* The transport of an open connection fails between two events; from then
\* on a write on it throws.
ioFailure(c) ==
  /\ sock[c].state = "open"
  /\ ~sock[c].broken
  /\ sock' = [sock EXCEPT ![c].broken = TRUE]
  /\ UNCHANGED <<responses, server, last>>

\* #dataHandler: the 'data' listener of socket c, on the chunk data.
dataHandler(c, data) ==
  /\ sock[c].state = "open"
  /\ "data" \in sock[c].listeners
  /\ ~sock[c].ended
  /\ LET r == Run(dataSteps(responses, data), Fresh(responses, sock[c].listeners),
                  sock[c].broken, FALSE)
     IN /\ responses' = r.store
        /\ sock' = [sock EXCEPT ![c] = sockAfter(@, r)]
        /\ last' = [h |-> "data", c |-> c, data |-> data, wrote |-> r.wrote, threw |-> r.threw,
                    teardown |-> r.asked]
  /\ UNCHANGED server

\* #endHandler: the 'end' listener of socket c, run when the peer half-closes.
\* The farewell write and the destroy are in one try block: when the write
\* throws, destroy is not called; destroyThrows says whether destroy throws.
endHandler(c, destroyThrows) ==
  /\ sock[c].state = "open"
  /\ "end" \in sock[c].listeners
  /\ ~sock[c].ended
  /\ LET r == Run(endSteps, Fresh(responses, sock[c].listeners), sock[c].broken,
                  destroyThrows)
     IN /\ sock' = [sock EXCEPT ![c] = sockAfter([@ EXCEPT !.ended = TRUE], r)]
        /\ last' = [h |-> "end", c |-> c, data |-> <<>>, wrote |-> r.wrote, threw |-> r.threw,
                    teardown |-> r.asked]
  /\ UNCHANGED <<responses, server>>

Next ==
  \/ init
  \/ close
  \/ closeCallback
  \/ \E c \in Conns, up \in BOOLEAN : tcpHandler(c, up)
  \/ \E c \in Conns : ioFailure(c)
  \/ \E c \in Conns, data \in BasicInputs : dataHandler(c, data)
  \/ \E c \in Conns, destroyThrows \in BOOLEAN : endHandler(c, destroyThrows)

\* The server with its whole lifecycle, on one chunk per kind of request.
Spec == Init /\ [][Next]_vars

NextCmd ==
  \/ init
  \/ \E c \in Conns : tcpHandler(c, TRUE)
  \/ \E c \in Conns, data \in RichInputs : dataHandler(c, data)

\* The server on a sound transport whose peers stay connected, on the full
\* command language.
SpecCmd == Init /\ [][NextCmd]_vars
(***************************************************************************)
(* What the claims speak of.                                               *)
(***************************************************************************)
\* The latest handler run was #dataHandler.
IsData == last.h = "data"
\* The latest handler run was #dataHandler and all its writes went out.
Answered == IsData /\ ~last.threw
\* The chunks that are a SET naming the word w, a CLEAR, a GET of w, an ALL.
SetOn(w) ==
  { Framed(<<SET, w>> \o L, s) : L \in DescLists, s \in {Tight, Loose} }
    \cup { SetLine(w, d) : d \in RawDescs }
    \cup { Framed(<<SET, w>>, Tight) }
    \cup (IF w = W1 THEN { Pipelined } ELSE {})
ClearChunks == { Framed(<<CLEAR>>, s) : s \in {Tight, Loose} }
GetChunks(w) ==
  { Framed(<<GET, w>>, s) : s \in {Tight, Loose} }
    \cup (IF w = W1 THEN { Framed(<<GET, W1, X>>, Tight) } ELSE {})
AllChunks == { Framed(<<ALL>>, s) : s \in {Tight, Loose} }
\* The response line a request `GET w` gets when the Map is m, from any
\* connection whose transport is sound; and the one it gets in the current
\* state.
GetReplyIn(m, w) == Run(dataSteps(m, GetLine(w)), Fresh(m, {}), FALSE, FALSE).wrote[1]
GetReply(w) == GetReplyIn(responses, w)
\* A description that is tokens separated by single spaces: no blank other
\* than the space, none at either end, no two in a row.
Normal(d) ==
  /\ d # <<>>
  /\ d[1] # " " /\ d[Len(d)] # " "
  /\ \A i \in 1..Len(d) : d[i] \notin {"\t", "\r", "\n"}
  /\ \A i \in 1..(Len(d) - 1) : ~(d[i] = " " /\ d[i + 1] = " ")

(***************************************************************************)
(* C1.  As claimed: once a request `SET w d` is processed, for any         *)
(* non-empty description d, a request `GET w` is answered `ANSWER d`.      *)
(***************************************************************************)
C1_RoundTripAnyDescription ==
  \A w \in Words, d \in RawDescs :
    (IsData /\ last.data = SetLine(w, d)) => GetReply(w) = AnswerLine(d)

\* C1, amended: for a description d that is tokens separated by single
\* spaces, once `SET w d` is processed a request `GET w` is answered
\* `ANSWER d`; that answer stays the same over every event that is neither a
\* SET naming w nor a CLEAR; and every `GET w` processed gets that answer.
C1_RoundTrip ==
  /\ [](\A w \in Words, d \in RawDescs :
          (IsData /\ last.data = SetLine(w, d) /\ Normal(d))
            => GetReply(w) = AnswerLine(d))
  /\ [][\A w \in Words :
          ~(last'.h = "data" /\ last'.data \in SetOn(w) \cup ClearChunks)
            => GetReplyIn(responses', w) = GetReplyIn(responses, w)]_vars
  /\ [](\A w \in Words :
          (IsData /\ last.data \in GetChunks(w)) => last.wrote[1] = GetReply(w))

\* A `GET a` answered with the two-token description `x yz`.
C1_Witness ==
  /\ IsData /\ last.data \in GetChunks(W1)
  /\ last.wrote[1] = AnswerLine(Glue(<<X, Y>>, <<" ">>))
\* A response line: one that starts with `ANSWER ` or with `ERROR `.
IsResponseLine(l) ==
  \/ Len(l) >= 7 /\ SubSeq(l, 1, 7) = AnswerPrefix
  \/ Len(l) >= 6 /\ SubSeq(l, 1, 6) = ErrorPrefix
IsErrorLine(l) == Len(l) >= 6 /\ SubSeq(l, 1, 6) = ErrorPrefix

(***************************************************************************)
(* C2.  Whatever the chunk, once #dataHandler has run with its writes      *)
(* going out, what it wrote is one response line followed by the separator *)
(* line.                                                                   *)
(***************************************************************************)
C2_SeparatorFollows ==
  Answered =>
    /\ Len(last.wrote) = 2
    /\ IsResponseLine(last.wrote[1])
    /\ last.wrote[2] = SeparatorLine

(***************************************************************************)
(* C3.  A data event never ends a session: after #dataHandler has run on   *)
(* a socket, the socket is open, not half-closed, and has both listeners;  *)
(* and a session stops being Active only in a step of #endHandler on it or *)
(* in a failure of its transport.                                          *)
(***************************************************************************)
C3_CommandErrorsKeepSession ==
  /\ [](IsData =>
          /\ sock[last.c].state = "open"
          /\ sock[last.c].listeners = {"end", "data"}
          /\ ~sock[last.c].ended)
  /\ [][\A c \in Conns :
          (Active(c) /\ ~Active(c)')
            => \/ \E destroyThrows \in BOOLEAN : endHandler(c, destroyThrows)
               \/ ioFailure(c)]_vars

\* An unknown verb was answered with its error and the session is Active.
C3_Witness ==
  /\ Answered /\ last.wrote[1] = ErrCommandNotFound
  /\ Active(last.c)
\* The descriptions of the requests with their tokens one space apart, and
\* the description the chunk Pipelined submits.
NormDescs == { Glue(L, <<" ">>) : L \in DescLists }
WholeDescs == NormDescs \cup { X \o <<" ">> \o GET \o <<" ">> \o W1 }
\* The number of entries of the Map m under the word w.
EntriesFor(m, w) == Cardinality({ i \in 1..Len(m) : m[i].key = w })
\* The SETs naming w that carry a description.
CompleteSetOn(w) == SetOn(w) \ { Framed(<<SET, w>>, Tight) }

(***************************************************************************)
(* C4.  Data events of two connections interleave as whole handler runs.   *)
(* When a `SET w2 d2` of one connection follows a `SET w1 d1` of the       *)
(* other: for different words each word is answered with its own           *)
(* description, for one word there is exactly one entry and it holds one   *)
(* of the two descriptions.  In every state a read can see, no word has    *)
(* two entries, every description is one that a request submitted whole,   *)
(* and after a CLEAR nothing is left.                                      *)
(***************************************************************************)
C4_ConcurrentSets ==
  /\ [][\A w1 \in Words, w2 \in Words, d1 \in NormDescs, d2 \in NormDescs :
          ( /\ last.h = "data" /\ last.data = SetLine(w1, d1)
            /\ last'.h = "data" /\ last'.data = SetLine(w2, d2)
            /\ last'.c # last.c )
            => IF w1 = w2
                 THEN /\ EntriesFor(responses', w1) = 1
                      /\ MapGet(responses', w1) \in {d1, d2}
                 ELSE /\ EntriesFor(responses', w1) = 1
                      /\ EntriesFor(responses', w2) = 1
                      /\ GetReplyIn(responses', w1) = AnswerLine(d1)
                      /\ GetReplyIn(responses', w2) = AnswerLine(d2)]_vars
  /\ [](\A i \in 1..Len(responses) :
          /\ EntriesFor(responses, responses[i].key) = 1
          /\ responses[i].value \in WholeDescs)
  /\ []((IsData /\ last.data \in ClearChunks) => responses = <<>>)

\* Connection c2 has just set the second word while the first word, set
\* before, still has its own description.
C4_Witness ==
  /\ IsData /\ last.c = "c2" /\ last.data = SetLine(W2, X)
  /\ Active("c1") /\ Active("c2")
  /\ Len(responses) = 2
  /\ MapGet(responses, W1) = Glue(<<X, Y>>, <<" ">>)
  /\ MapGet(responses, W2) = X

\* The chunks whose first token is none of the four verbs.
UnknownChunks ==
  { Framed(r, s) : r \in { q \in Requests : q[1] \notin {GET, SET, CLEAR, ALL} },
                   s \in {Tight, Loose} }

(***************************************************************************)
(* C5.  A chunk whose first token is not exactly GET, SET, CLEAR or ALL    *)
(* (`get`, `set`, `PING`) is answered `ERROR Command not found.` and       *)
(* leaves the Map as it was.                                               *)
(***************************************************************************)
C5_UnknownVerb ==
  /\ []((IsData /\ last.data \in UnknownChunks)
          => (Len(last.wrote) >= 1 /\ last.wrote[1] = ErrCommandNotFound))
  /\ [][(last'.h = "data" /\ last'.data \in UnknownChunks)
          => responses' = responses]_vars

\* `get a` was answered with the error although the Map holds the word a.
C5_Witness ==
  /\ IsData /\ last.data = Framed(<<Lower, W1>>, Tight)
  /\ last.wrote[1] = ErrCommandNotFound
  /\ MapHas(responses, W1)

\* The chunks whose first token is GET, with or without a word.
AnyGet == UNION { GetChunks(w) : w \in Words } \cup { Framed(<<GET>>, Tight) }

(***************************************************************************)
(* C6.  A GET or an ALL, answered or refused, leaves the Map as it was;    *)
(* the Map changes only in a step that processes a SET with a word and a   *)
(* description, or a CLEAR.                                                *)
(***************************************************************************)
C6_ReadsLeaveStore ==
  [][ /\ (last'.h = "data" /\ last'.data \in AnyGet \cup AllChunks)
            => responses' = responses
      /\ responses' # responses
            => /\ last'.h = "data"
               /\ last'.data \in UNION { CompleteSetOn(w) : w \in Words } \cup ClearChunks
    ]_vars

\* An ALL has listed the two words and the Map still holds both.
C6_Witness ==
  /\ IsData /\ last.data \in AllChunks
  /\ last.wrote[1] = AvailableLine(W1 \o <<",", " ">> \o W2)
  /\ Len(responses) = 2

(***************************************************************************)
(* C7.  Once a CLEAR is processed the Map is empty, and an ALL processed   *)
(* while it is empty is answered `ERROR There are no words saved.`.        *)
(***************************************************************************)
C7_ClearThenAll ==
  /\ []((IsData /\ last.data \in ClearChunks) => responses = <<>>)
  /\ [][( /\ responses = <<>>
          /\ last'.h = "data" /\ ~last'.threw /\ last'.data \in AllChunks )
          => last'.wrote[1] = ErrNoWords]_vars
  /\ [][( /\ last.h = "data" /\ last.data \in ClearChunks
          /\ last'.h = "data" /\ ~last'.threw /\ last'.data \in AllChunks )
          => last'.wrote = << ErrNoWords, SeparatorLine >>]_vars

\* An ALL was answered with the error of the empty Map.
C7_Witness ==
  /\ Answered /\ last.data \in AllChunks
  /\ last.wrote[1] = ErrNoWords
  /\ responses = <<>>

(***************************************************************************)
(* C8.  Processing again the chunk just processed, when it is a CLEAR or a *)
(* SET, leaves the Map as the first processing left it: empty after a      *)
(* CLEAR, with exactly one entry for the word after a SET.                 *)
(***************************************************************************)
C8_Idempotent ==
  /\ [][( /\ last.h = "data" /\ last'.h = "data" /\ last'.data = last.data
          /\ last.data \in UNION { CompleteSetOn(w) : w \in Words } \cup ClearChunks )
          => responses' = responses]_vars
  /\ [](\A w \in Words :
          (IsData /\ last.data \in CompleteSetOn(w))
            => EntriesFor(responses, w) = 1)
  /\ []((IsData /\ last.data \in ClearChunks) => responses = <<>>)

\* `SET a x` has been processed and the Map holds the one entry a: x.
C8_Witness ==
  /\ IsData /\ last.data = SetLine(W1, X)
  /\ responses = << [key |-> W1, value |-> X] >>

(***************************************************************************)
(* C9.  In every reachable state no entry of the Map has an empty key, a   *)
(* key with a blank in it, or an empty description.                        *)
(***************************************************************************)
C9_StoreInvariant ==
  \A i \in 1..Len(responses) :
    /\ responses[i].key # <<>>
    /\ \A j \in 1..Len(responses[i].key) :
         responses[i].key[j] \notin {" ", "\t", "\r", "\n"}
    /\ responses[i].value # <<>>

\* The Map holds an entry stored from a chunk of two lines.
C9_Witness ==
  /\ IsData /\ last.data = Pipelined
  /\ MapGet(responses, W1) = X \o <<" ">> \o GET \o <<" ">> \o W1

RECURSIVE SingleSpaced(_)
\* The tokens L with exactly one space between consecutive tokens.
SingleSpaced(L) ==
  IF Len(L) = 1 THEN L[1] ELSE L[1] \o <<" ">> \o SingleSpaced(Tail(L))
\* The layouts in which the request SET w t1 ... tn is sent.
Layouts(w, L) ==
  { Framed(<<SET, w>> \o L, s) : s \in {Tight, Loose} }
    \cup { SetLine(w, Glue(L, Spaces(g))) : g \in 1..MaxGap }

(***************************************************************************)
(* C10.  When a `GET w` is processed right after `SET w t1 ... tn`, sent   *)
(* with any runs of blanks between and around its tokens, it is answered   *)
(* `ANSWER t1 t2 ... tn` with one space between consecutive tokens and no  *)
(* other blank before the line terminator.                                 *)
(***************************************************************************)
C10_SingleSpaces ==
  [][\A w \in Words, L \in DescLists :
       ( /\ last.h = "data" /\ last.data \in Layouts(w, L)
         /\ last'.h = "data" /\ last'.data \in GetChunks(w) )
         => last'.wrote = << AnswerPrefix \o SingleSpaced(L) \o CRLF, SeparatorLine >>]_vars

\* After a SET sent with wide gaps, a GET of the word is answered with the
\* two tokens one space apart.
C10_Witness ==
  /\ IsData /\ last.data = Framed(<<SET, W2, X, Y>>, Loose)
  /\ GetReply(W2) = AnswerPrefix \o <<"x", " ", "y", "z">> \o CRLF
(***************************************************************************)
(* A chunk without a token.                                                *)
(***************************************************************************)
\* The step is a run of #dataHandler on the socket c that is not a repeat of
\* the run before it.
DataStepOn(c) == last'.h = "data" /\ last'.c = c /\ last' # last

\* C11: a chunk that carries no token is answered `ERROR A command was
\* expected.`; handling it changes neither the Map nor any socket, so the
\* session keeps both its listeners and stays open; and the next chunk the
\* same socket sends is answered with a response line, a `GET w` with what
\* the Map holds for w followed by the separator.
C11_BlankKeepsSession ==
  /\ [](Answered /\ last.data \in Blank => last.wrote[1] = ErrExpectedCommand)
  /\ [][\A c \in Conns :
          DataStepOn(c) /\ last'.data \in Blank
            => responses' = responses /\ sock' = sock]_vars
  /\ [][\A c \in Conns :
          (Answered /\ last.data \in Blank /\ last.c = c /\ Active(c) /\ DataStepOn(c))
            => /\ ~last'.threw
               /\ IsResponseLine(last'.wrote[1])
               /\ \A w \in Words :
                    last'.data = GetLine(w)
                      => last'.wrote = << GetReplyIn(responses, w), SeparatorLine >>]_vars

\* A chunk without a token has been answered on a session that is still
\* Active, with words in the Map.
C11_Witness ==
  /\ Answered /\ last.data \in Blank
  /\ last.wrote[1] = ErrExpectedCommand
  /\ Active(last.c)
  /\ responses # <<>>

(***************************************************************************)
(* Requests that lack an argument.                                         *)
(***************************************************************************)
\* C12: a GET without a word is answered `ERROR Expected format is: GET
\* <word>.`; a SET without a word, or with a word and no description, is
\* answered `ERROR Expected format is: SET <word> <desc>`; none of them
\* changes the Map.
C12_ArityErrors ==
  /\ [](Answered /\ match(last.data) = << GET >>
          => last.wrote = << ErrGetFormat, SeparatorLine >>)
  /\ [](Answered /\ match(last.data) \in ({ << SET >> } \cup { << SET, w >> : w \in Words })
          => last.wrote = << ErrSetFormat, SeparatorLine >>)
  /\ [][\A c \in Conns :
          (DataStepOn(c)
             /\ match(last'.data) \in ({ << GET >>, << SET >> } \cup { << SET, w >> : w \in Words }))
            => responses' = responses]_vars

\* A SET with a word and no description has been refused while the Map
\* holds words.
C12_Witness ==
  /\ Answered /\ match(last.data) = << SET, W1 >>
  /\ last.wrote[1] = ErrSetFormat
  /\ responses # <<>>
(***************************************************************************)
(* Stopping the server.                                                    *)
(***************************************************************************)
\* close has been called.
Stopping == server \in {"closing", "closed"}

RECURSIVE Received(_)
Received(ws) == IF ws = <<>> THEN <<>> ELSE Head(ws) \o Received(Tail(ws))

RECURSIVE LinesFrom(_, _, _)
LinesFrom(t, i, cur) ==
  IF i > Len(t) THEN (IF cur = <<>> THEN <<>> ELSE << cur >>)
  ELSE IF i < Len(t) /\ t[i] = "\r" /\ t[i + 1] = "\n"
    THEN << cur >> \o LinesFrom(t, i + 2, <<>>)
    ELSE LinesFrom(t, i + 1, Append(cur, t[i]))

LinesOf(t) == LinesFrom(t, 1, <<>>)

\* How many of the lines received from the writes ws start with `ANSWER ` or
\* `ERROR `.
ResponseLines(ws) ==
  LET ls == LinesOf(Received(ws))
  IN Cardinality({ i \in 1..Len(ls) : IsResponseLine(ls[i]) })

\* C14: whatever the chunk, two request lines in one chunk included, a run
\* of #dataHandler whose writes all went out has sent exactly one line that
\* starts with `ANSWER ` or `ERROR `.
C14_OneResponse == Answered => ResponseLines(last.wrote) = 1

\* A chunk that holds two request lines has been answered with one response
\* line.
C14_Witness ==
  /\ Answered /\ last.data = Pipelined
  /\ ResponseLines(last.wrote) = 1
(***************************************************************************)
(* The order of the writes on one socket.                                  *)
(***************************************************************************)
\* C15: a #tcpHandler whose writes went out wrote the two greeting lines,
\* and a socket gets its listeners only in such a run, so that #dataHandler
\* writes only to a socket that was greeted; an #endHandler whose steps all
\* went through wrote the farewell line and destroyed the socket, and it
\* calls destroy only once the farewell line is written; and once a socket
\* has had its end event no handler runs on it again, so nothing is written
\* to it after the farewell.
C15_WriteOrder ==
  /\ [](last.h = "tcp" /\ ~last.threw => last.wrote = << GreetingLine, CommandsLine >>)
  /\ [][\A c \in Conns :
          sock[c].listeners = {} /\ sock'[c].listeners # {}
            => /\ last'.h = "tcp" /\ last'.c = c
               /\ last'.wrote = << GreetingLine, CommandsLine >>]_vars
  /\ [][\A c \in Conns : DataStepOn(c) => "data" \in sock[c].listeners]_vars
  /\ [](last.h = "end" /\ ~last.threw
          => /\ last.wrote = << FarewellLine >>
             /\ last.teardown
             /\ sock[last.c].state = "destroyed")
  /\ [](last.h = "end" /\ last.teardown => last.wrote = << FarewellLine >>)
  /\ [][\A c \in Conns : sock[c].ended /\ last'.c = c => last' = last]_vars

\* The only socket that ever connected stored a word, then had its end
\* event: the farewell line went out and the socket was destroyed.
C15_Witness ==
  /\ last.h = "end" /\ last.c = "c1" /\ ~last.threw
  /\ last.wrote = << FarewellLine >>
  /\ sock["c1"].state = "destroyed"
  /\ sock["c2"].state = "none"
  /\ responses # <<>>
(***************************************************************************)
(* The half-close of the peer.                                             *)
(***************************************************************************)
\* C16: whenever #endHandler has run, be it that the farewell write or the
\* destroy threw, destroy was called on the socket.
C16_AlwaysTornDown == last.h = "end" => last.teardown
(***************************************************************************)
(* A greeting that fails.                                                  *)
(***************************************************************************)
\* The socket c is connected and has no listener: its greeting failed.
Ungreeted(c) == sock[c].state = "open" /\ sock[c].listeners = {}

\* C17: a #tcpHandler whose greeting write threw has registered no listener
\* and called no destroy; on a socket left like that neither #dataHandler
\* nor #endHandler can run, so no handler ever runs on it again, nothing is
\* written to it, and the step that any other socket takes leaves it as it
\* is; the Map changes only in a run of #dataHandler on another socket.
C17_FailedGreetingIsTerminal ==
  /\ [](last.h = "tcp" /\ last.threw
          => Ungreeted(last.c) /\ last.wrote = <<>> /\ ~last.teardown)
  /\ [](\A c \in Conns :
          Ungreeted(c)
            => /\ ~ENABLED (\E data \in BasicInputs : dataHandler(c, data))
               /\ ~ENABLED (\E destroyThrows \in BOOLEAN : endHandler(c, destroyThrows)))
  /\ [][\A c \in Conns :
          Ungreeted(c)
            => /\ sock'[c] = sock[c]
               /\ last'.c = c => last' = last
               /\ responses' # responses
                    => last'.h = "data" /\ last'.c # c]_vars

\* The greeting of c1 failed; c2 has since stored a word, and c1 is as the
\* failed greeting left it.
C17_Witness ==
  /\ Ungreeted("c1")
  /\ last.h = "data" /\ last.c = "c2" /\ ~last.threw
  /\ responses # <<>>
(***************************************************************************)
(* A write that fails in #dataHandler.                                     *)
(***************************************************************************)
\* C18: a run of #dataHandler in which a write threw changes no socket, its
\* own included, calls no destroy and leaves the server as it is; a
\* listening server can still take a new connection after it; and the next
\* chunk of another socket that is Active is answered with a response line,
\* a `GET w` with what the Map holds for w followed by the separator.
C18_FailureIsolation ==
  /\ [][\A c \in Conns :
          DataStepOn(c) /\ last'.threw
            => sock' = sock /\ server' = server /\ ~last'.teardown]_vars
  /\ [](IsData /\ last.threw /\ server = "listening"
          => \A c \in Conns : sock[c].state = "none" => ENABLED tcpHandler(c, TRUE))
  /\ [][\A c \in Conns :
          (IsData /\ last.threw /\ last.c # c /\ Active(c) /\ DataStepOn(c))
            => /\ ~last'.threw
               /\ IsResponseLine(last'.wrote[1])
               /\ \A w \in Words :
                    last'.data = GetLine(w)
                      => last'.wrote = << GetReplyIn(responses, w), SeparatorLine >>]_vars

\* A write threw in the #dataHandler of one socket, which is still open,
\* while the other socket is Active and the server listens.
C18_Witness ==
  /\ IsData /\ last.threw
  /\ sock[last.c].state = "open"
  /\ \E c \in Conns : c # last.c /\ Active(c)
  /\ server = "listening"
(***************************************************************************)
(* One command at a time.                                                  *)
(***************************************************************************)
\* The latest run of #dataHandler handled a command, and what it wrote is a
\* response line followed by the separator.
IsCommand == IsData /\ match(last.data) # <<>>
Whole ==
  /\ Len(last.wrote) = 2
  /\ IsResponseLine(last.wrote[1])
  /\ last.wrote[2] = SeparatorLine

\* C19: #dataHandler runs to its end before any other handler starts, so a
\* command is never seen half done: whenever a run of #dataHandler starts,
\* on the same socket or on another, the command handled before it, if its
\* writes went out, has its response line and its separator written; and a
\* step is the run of one handler on one socket.
C19_WholeCommands ==
  /\ [](IsCommand /\ ~last.threw => Whole)
  /\ [][\A c \in Conns :
          IsCommand /\ ~last.threw /\ DataStepOn(c) => Whole]_vars
  /\ [][\A c \in Conns :
          sock'[c] # sock[c]
            => \A o \in Conns \ {c} : sock'[o] = sock[o]]_vars
  /\ [][responses' # responses => last'.h = "data"]_vars

\* Both sockets are Active and the command handled last, which changed the
\* Map, has its response line and its separator written.
C19_Witness ==
  /\ Active("c1") /\ Active("c2")
  /\ IsCommand /\ ~last.threw /\ Whole
  /\ responses # <<>>
(***************************************************************************)
(* A mutation whose response cannot be written.                            *)
(***************************************************************************)
\* The latest run of #dataHandler threw at its first write; its chunk was a
\* SET with a word and a description, or a CLEAR.
FailedSet ==
  /\ IsData /\ last.threw /\ last.wrote = <<>>
  /\ Len(match(last.data)) >= 3 /\ match(last.data)[1] = SET
FailedClear ==
  IsData /\ last.threw /\ last.wrote = <<>> /\ match(last.data) = << CLEAR >>
\* The word and the description of the SET in the chunk data.
SetWord(data) == match(data)[2]
SetDesc(data) == join(slice(match(data), 2), <<" ">>)
\* The response line an ALL gets when the Map is m.
AllReplyIn(m) == Run(dataSteps(m, ALL \o CRLF), Fresh(m, {}), FALSE, FALSE).wrote[1]

\* C20: a SET or a CLEAR whose response write throws has changed the Map all
\* the same: after such a SET of w to d a `GET w` gets `ANSWER d`, after
\* such a CLEAR the Map is empty and an ALL gets the error that there are no
\* words; and this is what the next chunk of another socket that is Active
\* is answered.
C20_MutationSurvivesFailedWrite ==
  /\ [](FailedSet
          => /\ MapGet(responses, SetWord(last.data)) = SetDesc(last.data)
             /\ GetReply(SetWord(last.data)) = AnswerLine(SetDesc(last.data)))
  /\ [](FailedClear => responses = <<>> /\ AllReplyIn(responses) = ErrNoWords)
  /\ [][\A c \in Conns :
          (FailedSet /\ last.c # c /\ Active(c) /\ DataStepOn(c)
             /\ last'.data = GetLine(SetWord(last.data)))
            => last'.wrote = << AnswerLine(SetDesc(last.data)), SeparatorLine >>]_vars
  /\ [][\A c \in Conns :
          (FailedClear /\ last.c # c /\ Active(c) /\ DataStepOn(c)
             /\ last'.data = ALL \o CRLF)
            => last'.wrote = << ErrNoWords, SeparatorLine >>]_vars

\* The response of a SET could not be written, the Map holds the word with
\* the description of that SET, and the other socket is Active.
C20_Witness ==
  /\ FailedSet /\ last.data = SetLine(W2, Y)
  /\ GetReply(W2) = AnswerLine(Y)
  /\ \E c \in Conns : c # last.c /\ Active(c)
=============================================================================
